---- MODULE Spec2Model ----
(***************************************************************************)
(* ttn2sqlite: a line-delimited JSON stream of TTN uplink messages is      *)
(* decoded (serde_json + base64 into a fixed 512-byte buffer) and every    *)
(* message is inserted as one row of the SQLite table "data".              *)
(*                                                                         *)
(* Text is modelled as sequences of byte values (ASCII codes).  A JSON     *)
(* string token is a sequence of items: a literal character is its code c, *)
(* a character written as an escape sequence is the negative -(c + 1).     *)
(* Number tokens are kept as sequences of decimal digits, and an f64 as    *)
(* its sign, its significand of 53 bits and its binary exponent.           *)
(***************************************************************************)
EXTENDS Integers, Sequences, FiniteSets, TLC

\* ------------------------------------------------------------------ bounds

\* The longest input stream (number of stream items) that is enumerated.
MaxLines == 3

\* All byte sequences over BlobBytes up to this length are enumerated
\* as payloads.
MaxBlobLen == 3

\* ------------------------------------------------------- program constants

\* Payload::MAX_PAYLOAD_SIZE
MAX_PAYLOAD_SIZE == 512

\* u32::MAX, in decimal digits (numbers of the input are kept as digit
\* sequences; 2^32 is beyond the model checker's integers)
U32_MAX == <<4, 2, 9, 4, 9, 6, 7, 2, 9, 5>>

\* ------------------------------------------------------------------ base64

\* base64::STANDARD alphabet: A-Z a-z 0-9 + /
STANDARD_ALPHABET ==
    [i \in 1..64 |-> IF i <= 26 THEN 64 + i
                     ELSE IF i <= 52 THEN 70 + i
                     ELSE IF i <= 62 THEN i - 5
                     ELSE IF i = 63 THEN 43 ELSE 47]

\* '='
PAD_BYTE == 61

\* The decode table of the STANDARD alphabet: the 6-bit value of a symbol,
\* 255 (INVALID_VALUE) for every byte that is not a symbol.
DecodeTable ==
    [c \in 0..255 |-> IF \E i \in 1..64 : STANDARD_ALPHABET[i] = c
                      THEN (CHOOSE i \in 1..64 : STANDARD_ALPHABET[i] = c) - 1
                      ELSE 255]

\* Standard Base64 encoding with padding (what the sender of a message does
\* to the payload bytes).
Base64Encode(b) ==
    LET n == Len(b)
        byteAt(i) == IF i <= n THEN b[i] ELSE 0
        quad(g) == byteAt(3 * g + 1) * 65536 + byteAt(3 * g + 2) * 256 + byteAt(3 * g + 3)
        present(g) == IF n - 3 * g >= 3 THEN 3 ELSE n - 3 * g
    IN  [j \in 1..(4 * ((n + 2) \div 3)) |->
            LET g == (j - 1) \div 4
                k == (j - 1) % 4
            IN  IF k > present(g) THEN PAD_BYTE
                ELSE STANDARD_ALPHABET[((quad(g) \div (64 ^ (3 - k))) % 64) + 1]]

\* Smallest member of a non-empty set of integers.
MinOf(S) == CHOOSE x \in S : \A y \in S : x <= y

\* The decode table's entry for a byte that is not a symbol of the alphabet
\* ('=' included).
INVALID_VALUE == 255

\* The decoder's chunking: 8 input symbols make 6 output bytes; the fast
\* decode of a chunk stores a u64, whose last 2 bytes are zero and are
\* overwritten by the chunk after it; the fast loop takes 4 chunks at a
\* time.
INPUT_CHUNK_LEN == 8
DECODED_CHUNK_LEN == 6
DECODED_CHUNK_SUFFIX == 2
CHUNKS_PER_FAST_LOOP_BLOCK == 4
INPUT_BLOCK_LEN == CHUNKS_PER_FAST_LOOP_BLOCK * INPUT_CHUNK_LEN
DECODED_BLOCK_LEN == CHUNKS_PER_FAST_LOOP_BLOCK * DECODED_CHUNK_LEN + DECODED_CHUNK_SUFFIX

\* base64::decode_config_slice(input, base64::STANDARD, output): decodes into
\* the caller's slice and returns the number of bytes written, or a
\* DecodeError; a store that does not fit the slice panics instead of
\* returning.  The function and the constant base64::STANDARD that
\* main.rs names (lines 3 and 123) are those of the releases 0.10 to 0.13 of
\* the crate; later releases have neither, and decode in another order.  The input is decoded front to back in chunks of 8 symbols,
\* and the first chunk that cannot be decoded decides the outcome:
\*  0. an input of 1 or 5 symbols beyond whole chunks is an error before
\*     anything is decoded (InvalidByte for a last byte that is neither a
\*     symbol nor '=', InvalidLength otherwise);
\*  1. the fast loop decodes blocks of 4 chunks while a block lies before the
\*     trailing symbols it must leave alone; it takes the 26 bytes of the
\*     slice that the block can touch first, and panics if they are not
\*     there;
\*  2. the chunks left before the trailing symbols, but for the last of
\*     them, are decoded one by one into 8 bytes of the slice each;
\*  3. the chunks before the last one are decoded into 6 bytes of the slice
\*     each;
\*  in 1 to 3 a byte outside the alphabet ('=' included) is InvalidByte, and
\*  nothing of its chunk is stored;
\*  4. the last chunk (8 symbols or fewer): '=' is only accepted as a suffix
\*     in the third or fourth place of a quad (the padding may be left out),
\*     and the bits of the last symbol that do not reach the output must be
\*     zero (InvalidLastSymbol); its bytes are then stored one by one, and
\*     the store past the end of the slice panics.
\* status: "ok" | "err" | "panic"; bytes: the slice afterwards; size: the
\* returned count; written: the number of slice elements stored to, which are
\* the indices 0..written-1.
Base64DecodeSlice(input, output) ==
    LET n == Len(input)
        cap == Len(output)
        isPad(i) == input[i] = PAD_BYTE
        invalid(i) == DecodeTable[input[i]] = INVALID_VALUE
        remainder_len == n % INPUT_CHUNK_LEN
        trailing_bytes_to_skip ==
            IF remainder_len = 0 THEN INPUT_CHUNK_LEN
            ELSE IF remainder_len \in {2, 3, 4} THEN INPUT_CHUNK_LEN + remainder_len
            ELSE remainder_len
        length_of_fast_decode_chunks ==
            IF n > trailing_bytes_to_skip THEN n - trailing_bytes_to_skip ELSE 0
        num_chunks == (n + INPUT_CHUNK_LEN - 1) \div INPUT_CHUNK_LEN
        \* chunks 0..last-1 are decoded in stages 1 to 3, chunk last in stage 4
        last == IF n = 0 THEN 0 ELSE num_chunks - 1
        \* chunks of stage 1, and chunks of the stages 1 and 2
        blockChunks == CHUNKS_PER_FAST_LOOP_BLOCK * (length_of_fast_decode_chunks \div INPUT_BLOCK_LEN)
        beforeLast == (length_of_fast_decode_chunks \div INPUT_CHUNK_LEN) - 1
        fastChunks == IF beforeLast > blockChunks THEN beforeLast ELSE blockChunks
        \* the slice of the output taken for chunk c does not exist
        noRoom(c) ==
            IF c < blockChunks
            THEN c % CHUNKS_PER_FAST_LOOP_BLOCK = 0 /\ DECODED_CHUNK_LEN * c + DECODED_BLOCK_LEN > cap
            ELSE IF c < fastChunks
            THEN DECODED_CHUNK_LEN * c + DECODED_CHUNK_LEN + DECODED_CHUNK_SUFFIX > cap
            ELSE DECODED_CHUNK_LEN * c + DECODED_CHUNK_LEN > cap
        badChunks == {(i - 1) \div INPUT_CHUNK_LEN : i \in {k \in 1..(INPUT_CHUNK_LEN * last) : invalid(k)}}
        stops == {c \in 0..(last - 1) : noRoom(c) \/ c \in badChunks}
        \* slice elements stored to once the chunks before c are decoded
        stored(c) == IF c = 0 THEN 0
                     ELSE IF c - 1 < fastChunks
                     THEN DECODED_CHUNK_LEN * c + DECODED_CHUNK_SUFFIX
                     ELSE DECODED_CHUNK_LEN * c
        \* stage 4
        start == INPUT_CHUNK_LEN * last
        leftoverBad == \E i \in (start + 1)..n :
                          \/ isPad(i) /\ (i - start - 1) % 4 < 2
                          \/ ~isPad(i) /\ i > start + 1 /\ isPad(i - 1)
                          \/ ~isPad(i) /\ invalid(i)
        morsels_in_leftover == Cardinality({i \in (start + 1)..n : ~isPad(i)})
        leftoverBytes == (6 * morsels_in_leftover) \div 8
        trailingBits == /\ morsels_in_leftover > 0
                        /\ DecodeTable[input[start + morsels_in_leftover]]
                              % (2 ^ (6 * morsels_in_leftover - 8 * leftoverBytes)) # 0
        decodedLen == DECODED_CHUNK_LEN * last + leftoverBytes
        morsel(i) == IF i <= n /\ ~invalid(i) THEN DecodeTable[input[i]] ELSE 0
        quad(g) == morsel(4 * g + 1) * 262144 + morsel(4 * g + 2) * 4096
                   + morsel(4 * g + 3) * 64 + morsel(4 * g + 4)
        byte(j) == (quad((j - 1) \div 3) \div (256 ^ (2 - ((j - 1) % 3)))) % 256
        \* the slice with its first k bytes decoded and the elements up to w
        \* stored to
        fill(k, w) == [i \in 1..cap |-> IF i <= k THEN byte(i)
                                        ELSE IF i <= w THEN 0 ELSE output[i]]
        larger(a, b) == IF a > b THEN a ELSE b
        stopped(c) == [status |-> IF noRoom(c) THEN "panic" ELSE "err",
                       bytes |-> fill(DECODED_CHUNK_LEN * c, stored(c)),
                       size |-> 0, written |-> stored(c)]
    IN  IF remainder_len \in {1, 5}
        THEN [status |-> "err", bytes |-> output, size |-> 0, written |-> 0]
        ELSE IF stops # {}
        THEN stopped(MinOf(stops))
        ELSE IF leftoverBad \/ trailingBits
        THEN [status |-> "err", bytes |-> fill(DECODED_CHUNK_LEN * last, stored(last)),
              size |-> 0, written |-> stored(last)]
        ELSE IF decodedLen > cap
        THEN [status |-> "panic", bytes |-> fill(cap, cap), size |-> 0, written |-> cap]
        ELSE [status |-> "ok", bytes |-> fill(decodedLen, larger(stored(last), decodedLen)),
              size |-> decodedLen, written |-> larger(stored(last), decodedLen)]

\* ----------------------------------------------------------------- Payload

\* Variant of PayloadEmpty: the buffer is allocated larger than the maximum
\* payload size.
PayloadEmpty_Oversized == [bytes |-> [i \in 1..(2 * MAX_PAYLOAD_SIZE) |-> 0], size |-> 0]

\* Payload::empty()
PayloadEmpty == [bytes |-> [i \in 1..MAX_PAYLOAD_SIZE |-> 0], size |-> 0]

\* Variant of as_slice: the whole buffer is exposed.
as_slice_WholeBuffer(p) == p.bytes

\* Payload::as_slice(): &self.bytes[0..self.size]
as_slice(p) == SubSeq(p.bytes, 1, p.size)

\* -------------------------------------------------------------------- JSON
\* A JSON text as the parser meets it, from left to right:
\* [t |-> "invalid"] where no JSON value starts, [t |-> "null"],
\* [t |-> "str", s |-> items], [t |-> "num", neg |-> sign, int |-> digits,
\* frac |-> digits after the point (<<>> for a token without fraction),
\* exp |-> <<>> or <<e>> for a token with the exponent e],
\* [t |-> "arr", a |-> elements, cut |-> c], [t |-> "obj", o |-> the
\* <<key, value>> pairs in the order of the text, cut |-> c].  cut tells that
\* the text goes wrong behind the elements or pairs listed: the bracket is
\* never closed, or characters follow the value where the text should end.
\* An item of a string is the code of a character, or Esc(c) for a
\* character written as an escape sequence.

\* The item of a character written as an escape sequence (\", \\, \/,
\* \uXXXX, ...).
Esc(c) == -(c + 1)

HasEscape(items) == \E i \in 1..Len(items) : items[i] < 0

\* serde_json reads a string token to its closing quote only when no
\* character is a raw control character ("control character
\* (\u0000-\u001F) found while parsing a string").
FIRST_PRINTABLE == 32
StrWellFormed(items) == \A i \in 1..Len(items) : items[i] < 0 \/ items[i] >= FIRST_PRINTABLE

\* The text of a value is JSON to its end: what serde_json requires of a
\* value it skips (the value of an unknown key).
RECURSIVE WellFormed(_)
WellFormed(j) ==
    IF j.t = "invalid" THEN FALSE
    ELSE IF j.t = "str" THEN StrWellFormed(j.s)
    ELSE IF j.t = "arr" THEN ~j.cut /\ \A i \in 1..Len(j.a) : WellFormed(j.a[i])
    ELSE IF j.t = "obj" THEN ~j.cut /\ \A i \in 1..Len(j.o) : WellFormed(j.o[i][2])
    ELSE TRUE

\* The characters a JSON string token denotes.
StrValue(items) == [i \in 1..Len(items) |-> IF items[i] < 0 THEN -items[i] - 1 ELSE items[i]]

\* <&str as Deserialize>: a borrowed string slice of the input line.  It
\* exists only when the token has no escape sequence; serde_json has to
\* unescape into a scratch buffer otherwise and reports "invalid type:
\* string, expected a borrowed string".
DeserializeStr(j) ==
    IF j.t = "str" /\ StrWellFormed(j.s) /\ ~HasEscape(j.s)
    THEN [ok |-> TRUE, v |-> StrValue(j.s)]
    ELSE [ok |-> FALSE, v |-> <<>>]

\* a <= b for two digit sequences without leading zeros
DigitsLeq(a, b) ==
    \/ Len(a) < Len(b)
    \/ /\ Len(a) = Len(b)
       /\ \A i \in 1..Len(a) :
              (\A k \in 1..(i - 1) : a[k] = b[k]) => a[i] <= b[i]

\* <u32 as Deserialize>: an integer token in 0..u32::MAX; a token with a
\* sign, a fraction or an exponent is no u32.
DeserializeU32(j) ==
    IF j.t = "num" /\ ~j.neg /\ j.frac = <<>> /\ j.exp = <<>> /\ DigitsLeq(j.int, U32_MAX)
    THEN [ok |-> TRUE, v |-> j.int]
    ELSE [ok |-> FALSE, v |-> <<>>]

\* Largest member of a non-empty set of integers.
MaxOf(S) == CHOOSE x \in S : \A y \in S : y <= x

\* A digit sequence without its leading zeros.
StripLeadingZeros(d) ==
    LET keep == {i \in 1..Len(d) : d[i] # 0}
    IN  IF keep = {} THEN <<>> ELSE SubSeq(d, MinOf(keep), Len(d))

\* ----------------------------------------------------------------- numbers
\* Natural numbers of any size: the sequence of their LIMB_BITS-bit limbs,
\* the lowest first and the highest not zero (<<>> is 0).

LIMB_BITS == 12
LIMB == 2 ^ LIMB_BITS

LimbAt(x, i) == IF i >= 1 /\ i <= Len(x) THEN x[i] ELSE 0

Trim(x) ==
    LET keep == {i \in 1..Len(x) : x[i] # 0}
    IN  IF keep = {} THEN <<>> ELSE SubSeq(x, 1, MaxOf(keep))

\* The carry into limb i of x + y: a limb below overflows, and every limb
\* between passes the carry on.
CarryInto(x, y, i) ==
    \E k \in 1..(i - 1) :
        /\ LimbAt(x, k) + LimbAt(y, k) >= LIMB
        /\ \A l \in (k + 1)..(i - 1) : LimbAt(x, l) + LimbAt(y, l) = LIMB - 1

NatAdd(x, y) ==
    IF x = <<>> THEN y
    ELSE IF y = <<>> THEN x
    ELSE Trim([i \in 1..((IF Len(x) > Len(y) THEN Len(x) ELSE Len(y)) + 1) |->
                  (LimbAt(x, i) + LimbAt(y, i) + (IF CarryInto(x, y, i) THEN 1 ELSE 0)) % LIMB])

\* The borrow from limb i of x - y.
BorrowFrom(x, y, i) ==
    \E k \in 1..(i - 1) :
        /\ LimbAt(x, k) < LimbAt(y, k)
        /\ \A l \in (k + 1)..(i - 1) : LimbAt(x, l) = LimbAt(y, l)

\* x - y for x >= y
NatSub(x, y) ==
    IF y = <<>> THEN x
    ELSE Trim([i \in 1..Len(x) |->
                  (LIMB + x[i] - LimbAt(y, i) - (IF BorrowFrom(x, y, i) THEN 1 ELSE 0)) % LIMB])

NatGeq(x, y) ==
    \/ Len(x) > Len(y)
    \/ /\ Len(x) = Len(y)
       /\ \A i \in 1..Len(x) : (\A k \in (i + 1)..Len(x) : x[k] = y[k]) => x[i] >= y[i]

\* x * LIMB^n
NatShiftLimbs(x, n) ==
    IF x = <<>> THEN <<>> ELSE [i \in 1..(Len(x) + n) |-> IF i <= n THEN 0 ELSE x[i - n]]

\* The number with the columns cols, a column being any number below
\* LIMB^3: the sum of the numbers made of the columns' low, middle and high
\* limbs.
NatOfColumns(cols) ==
    IF Len(cols) = 0 THEN <<>>
    ELSE NatAdd(NatAdd(Trim([i \in 1..Len(cols) |-> cols[i] % LIMB]),
                       NatShiftLimbs(Trim([i \in 1..Len(cols) |-> (cols[i] \div LIMB) % LIMB]), 1)),
                NatShiftLimbs(Trim([i \in 1..Len(cols) |-> cols[i] \div (LIMB * LIMB)]), 2))

\* x * k + a for k and a below LIMB
NatMulAdd(x, k, a) ==
    IF x = <<>> THEN (IF a = 0 THEN <<>> ELSE <<a>>)
    ELSE NatOfColumns([i \in 1..Len(x) |-> x[i] * k + (IF i = 1 THEN a ELSE 0)])

\* Column i of x * y: the sum of x[k] * y[i + 1 - k] from k on.
RECURSIVE MulColumn(_, _, _, _)
MulColumn(x, y, i, k) ==
    IF k > Len(x) \/ k > i THEN 0
    ELSE x[k] * y[i + 1 - k] + MulColumn(x, y, i, k + 1)

NatMul(x, y) ==
    IF x = <<>> \/ y = <<>> THEN <<>>
    ELSE NatOfColumns([i \in 1..(Len(x) + Len(y) - 1) |->
                          MulColumn(x, y, i, IF i > Len(y) THEN i + 1 - Len(y) ELSE 1)])

\* The number of bits of x.
BitLen(x) ==
    IF x = <<>> THEN 0
    ELSE LIMB_BITS * (Len(x) - 1)
         + (CHOOSE b \in 1..LIMB_BITS : 2 ^ (b - 1) <= x[Len(x)] /\ x[Len(x)] < 2 ^ b)

\* Bit i of x (bit 0 is the lowest); some bit below bit n is set.
NatBit(x, i) == (LimbAt(x, (i \div LIMB_BITS) + 1) \div (2 ^ (i % LIMB_BITS))) % 2

NatLowBits(x, n) ==
    \/ \E i \in 1..Len(x) : i <= n \div LIMB_BITS /\ x[i] # 0
    \/ LimbAt(x, (n \div LIMB_BITS) + 1) % (2 ^ (n % LIMB_BITS)) # 0

\* x * 2^n, x \div 2^n
NatShiftLeft(x, n) == NatMulAdd(NatShiftLimbs(x, n \div LIMB_BITS), 2 ^ (n % LIMB_BITS), 0)

NatShiftRight(x, n) ==
    IF Len(x) <= n \div LIMB_BITS THEN <<>>
    ELSE Trim([i \in 1..(Len(x) - (n \div LIMB_BITS)) |->
                  (LimbAt(x, i + (n \div LIMB_BITS)) \div (2 ^ (n % LIMB_BITS)))
                  + (LimbAt(x, i + (n \div LIMB_BITS) + 1) % (2 ^ (n % LIMB_BITS)))
                    * (2 ^ (LIMB_BITS - (n % LIMB_BITS)))])

\* The number a sequence of at most CHUNK decimal digits denotes.
CHUNK == 9
RECURSIVE ChunkValue(_, _)
ChunkValue(d, n) == IF n = 0 THEN 0 ELSE ChunkValue(d, n - 1) * 10 + d[n]

NatOfChunk(d) == NatOfColumns(<<ChunkValue(d, Len(d))>>)

\* 10^CHUNK
TenToChunk == NatOfChunk(<<1, 0, 0, 0, 0, 0, 0, 0, 0, 0>>)

\* The number a digit sequence denotes: chunk after chunk from the left.
RECURSIVE NatFromDigits(_)
NatFromDigits(d) ==
    IF Len(d) <= CHUNK THEN NatOfChunk(d)
    ELSE NatAdd(NatMul(NatFromDigits(SubSeq(d, 1, Len(d) - CHUNK)), TenToChunk),
                NatOfChunk(SubSeq(d, Len(d) - CHUNK + 1, Len(d))))

\* Long division: n further bits of the quotient st.q with the remainder
\* st.r below d.
RECURSIVE NatDivSteps(_, _, _)
NatDivSteps(st, d, n) ==
    IF n = 0 THEN st
    ELSE IF NatGeq(NatMulAdd(st.r, 2, 0), d)
    THEN NatDivSteps([q |-> NatMulAdd(st.q, 2, 1), r |-> NatSub(NatMulAdd(st.r, 2, 0), d)],
                     d, n - 1)
    ELSE NatDivSteps([q |-> NatMulAdd(st.q, 2, 0), r |-> NatMulAdd(st.r, 2, 0)], d, n - 1)

\* q = (x * 2^n) \div d and the remainder r, for x < 2 * d
NatDivShifted(x, d, n) ==
    IF NatGeq(x, d) THEN NatDivSteps([q |-> <<1>>, r |-> NatSub(x, d)], d, n)
    ELSE NatDivSteps([q |-> <<>>, r |-> x], d, n)

\* 5^k
RECURSIVE Pow5(_)
Pow5Step(h, odd) == IF odd THEN NatMulAdd(NatMul(h, h), 5, 0) ELSE NatMul(h, h)
Pow5(k) == IF k = 0 THEN <<1>> ELSE Pow5Step(Pow5(k \div 2), k % 2 = 1)

\* --------------------------------------------------------------------- f64
\* The magnitude of an f64: [m, e, inf] is m * 2^e, with 2^52 <= m < 2^53 for
\* a normal number, m < 2^52 and e = F64_MIN_EXP for a subnormal one, m = <<>>
\* and e = 0 for zero; inf for infinity.

F64_MANT_BITS == 53
F64_MIN_EXP == -1074
F64_MAX_EXP == 1023

F64Zero == [m |-> <<>>, e |-> 0, inf |-> FALSE]
F64Inf == [m |-> <<>>, e |-> 0, inf |-> TRUE]

\* The f64 of the rounded significand m at the exponent e: a significand
\* that was rounded up to 2^53 is 2^52 at e + 1, and a number of 2^1024 or
\* more is infinity.
F64Pack(mant, ex) ==
    IF mant = <<>> THEN F64Zero
    ELSE IF ex + BitLen(mant) - 1 > F64_MAX_EXP THEN F64Inf
    ELSE IF BitLen(mant) > F64_MANT_BITS
    THEN [m |-> NatShiftRight(mant, 1), e |-> ex + 1, inf |-> FALSE]
    ELSE [m |-> mant, e |-> ex, inf |-> FALSE]

\* num * 2^pow2 without its lowest `shift` bits, rounded to nearest, ties to
\* even.
F64RoundAt(num, pow2, shift) ==
    IF shift <= 0 THEN F64Pack(NatShiftLeft(num, -shift), pow2 + shift)
    ELSE F64Pack(NatMulAdd(NatShiftRight(num, shift), 1,
                           IF /\ NatBit(num, shift - 1) = 1
                              /\ NatLowBits(num, shift - 1) \/ NatBit(num, shift) = 1
                           THEN 1 ELSE 0),
                 pow2 + shift)

\* The f64 nearest to nat * 2^scale.
F64Round(nat, scale) ==
    IF nat = <<>> THEN F64Zero
    ELSE F64RoundAt(nat, scale,
                    IF BitLen(nat) - F64_MANT_BITS > F64_MIN_EXP - scale
                    THEN BitLen(nat) - F64_MANT_BITS ELSE F64_MIN_EXP - scale)

\* a * b
F64Mul(a, b) == F64Round(NatMul(a.m, b.m), a.e + b.e)

\* The f64 nearest to the quotient qr.q * 2^qe with the remainder qr.r: the
\* bit below the quotient tells whether the division left a remainder.
F64OfQuotient(qr, qe) ==
    F64Round(NatMulAdd(qr.q, 2, IF qr.r = <<>> THEN 0 ELSE 1), qe - 1)

\* dividend / divisor for a normal divisor: the quotient is taken to 56 bits
\* or more.
F64DivBits(dividend, divisor, bits) ==
    F64OfQuotient(NatDivShifted(dividend.m, divisor.m, bits),
                  dividend.e - divisor.e - bits)

F64Div(a, b) ==
    IF a.m = <<>> THEN F64Zero ELSE F64DivBits(a, b, 2 * F64_MANT_BITS + 3 - BitLen(a.m))

\* serde_json's table POW10: the f64 literals 1e0 .. 1e308.
POW10_MAX == 308
POW10 == [k \in 0..POW10_MAX |-> F64Round(Pow5(k), k)]

\* serde_json f64_from_parts: f = significand as f64, then f *= 10^exponent
\* or f /= 10^-exponent with the power of ten from POW10; an exponent beyond
\* the table is an error when it is positive (and f not zero), and is
\* approached by dividing by 1e308 when it is negative.  A product that is
\* infinite is "number out of range".
RECURSIVE f64_from_parts(_, _)
f64_from_parts(f, exponent) ==
    IF exponent >= 0 /\ exponent <= POW10_MAX
    THEN [ok |-> ~F64Mul(f, POW10[exponent]).inf, v |-> F64Mul(f, POW10[exponent])]
    ELSE IF exponent < 0 /\ -exponent <= POW10_MAX
    THEN [ok |-> TRUE, v |-> F64Div(f, POW10[-exponent])]
    ELSE IF f.m = <<>> THEN [ok |-> TRUE, v |-> f]
    ELSE IF exponent >= 0 THEN [ok |-> FALSE, v |-> F64Inf]
    ELSE f64_from_parts(F64Div(f, POW10[POW10_MAX]), exponent + POW10_MAX)

\* u64::MAX, in decimal digits
U64_MAX == <<1, 8, 4, 4, 6, 7, 4, 4, 0, 7, 3, 7, 0, 9, 5, 5, 1, 6, 1, 5>>

\* The digits denote a number that fits a u64.
FitsU64(d) == DigitsLeq(StripLeadingZeros(d), U64_MAX)

\* serde_json parse_integer / parse_long_integer: the digits of the integer
\* part are taken into the u64 significand until the next one would overflow
\* it; the digits left over only count for the exponent.
IntTaken(j) ==
    MaxOf({n \in 0..(IF Len(j.int) > Len(U64_MAX) THEN Len(U64_MAX) ELSE Len(j.int)) :
              FitsU64(SubSeq(j.int, 1, n))})

\* serde_json parse_decimal / parse_decimal_overflow: the digits of the
\* fraction are taken likewise; the digits left over are dropped.
FracTaken(j, head) ==
    MaxOf({n \in 0..Len(j.frac) : FitsU64(head \o SubSeq(j.frac, 1, n))})

\* The value of a number token with ni digits of the integer part and nf
\* digits of the fraction taken into the significand.
F64OfToken(j, ni, nf) ==
    f64_from_parts(F64Round(NatFromDigits(SubSeq(j.int, 1, ni) \o SubSeq(j.frac, 1, nf)), 0),
                   (Len(j.int) - ni) - nf + (IF j.exp = <<>> THEN 0 ELSE j.exp[1]))

\* The f64 with its sign.
F64Signed(neg, r) == [ok |-> r.ok, v |-> [neg |-> neg, m |-> r.v.m, e |-> r.v.e]]

\* <f64 as Deserialize>: any JSON number token, as serde_json (without its
\* feature float_roundtrip) computes it; "number out of range" is an error.
DeserializeF64(j) ==
    IF j.t # "num" THEN [ok |-> FALSE, v |-> [neg |-> FALSE, m |-> <<>>, e |-> 0]]
    ELSE F64Signed(j.neg, F64OfToken(j, IntTaken(j), FracTaken(j, SubSeq(j.int, 1, IntTaken(j)))))

\* deserialize_payload: status "ok" | "err" | "panic".
deserialize_payload(j) ==
    LET input == DeserializeStr(j)
        payload == PayloadEmpty
        r == Base64DecodeSlice(input.v, payload.bytes)
    IN  IF ~input.ok
        THEN [status |-> "err", payload |-> payload, written |-> 0]
        ELSE IF r.status = "ok"
        THEN [status |-> "ok", payload |-> [bytes |-> r.bytes, size |-> r.size],
              written |-> r.written]
        ELSE [status |-> r.status, payload |-> [bytes |-> r.bytes, size |-> 0],
              written |-> r.written]

\* ------------------------------------------------------------ UplinkMessage

\* The fields of the two structs, in the order of their declaration.
MetadataFields == <<"time", "longitude", "latitude", "altitude">>

UplinkFields == <<"app_id", "dev_id", "hardware_serial", "port", "counter",
                  "metadata", "payload_raw">>

Range(q) == {q[i] : i \in 1..Len(q)}

\* What #[derive(Deserialize)] visits for a struct: the <<key, value>> pairs
\* of a JSON object in the order of the text, or the elements of a JSON array
\* as the values of the fields in the order of their declaration.
StructEntries(j, fields) ==
    IF j.t = "obj" THEN j.o
    ELSE [i \in 1..(IF Len(j.a) < Len(fields) THEN Len(j.a) ELSE Len(fields)) |->
             <<fields[i], j.a[i]>>]

\* The place of the first entry with the key f, 0 when there is none.
IndexOf(entries, f) ==
    IF \E i \in 1..Len(entries) : entries[i][1] = f
    THEN MinOf({i \in 1..Len(entries) : entries[i][1] = f})
    ELSE 0

\* The key of entry i has been seen before ("duplicate field").
IsDuplicate(entries, i) == \E k \in 1..(i - 1) : entries[k][1] = entries[i][1]

\* The value of an unknown key is skipped, which takes a value that is JSON
\* to its end.
SkipFails(entries, fields) ==
    \E i \in 1..Len(entries) : entries[i][1] \notin Range(fields) /\ ~WellFormed(entries[i][2])

\* A field has no entry ("missing field", reported when the object closes;
\* "invalid length" for an array), or an array has elements left over.
Incomplete(j, fields) ==
    \/ \E f \in Range(fields) : IndexOf(StructEntries(j, fields), f) = 0
    \/ j.t = "arr" /\ Len(j.a) > Len(fields)

\* The fields of a struct that have an entry.
Present(entries, fields) == {f \in Range(fields) : IndexOf(entries, f) > 0}

\* An entry of a known key is a duplicate.
HasDuplicate(entries, fields) ==
    \E i \in 1..Len(entries) : entries[i][1] \in Range(fields) /\ IsDuplicate(entries, i)

\* The value of every field of UplinkMetadata that has an entry, deserialized
\* as the type of the field.
MetadataValues(e) ==
    [f \in Present(e, MetadataFields) |->
        IF f = "time" THEN DeserializeStr(e[IndexOf(e, f)][2])
        ELSE DeserializeF64(e[IndexOf(e, f)][2])]

\* The outcome for the entries e of the metadata j with the values vals.
MetadataOutcome(j, e, vals) ==
    IF \/ HasDuplicate(e, MetadataFields)
       \/ \E f \in DOMAIN vals : ~vals[f].ok
       \/ SkipFails(e, MetadataFields)
       \/ j.cut
       \/ Incomplete(j, MetadataFields)
    THEN [ok |-> FALSE, v |-> <<>>]
    ELSE [ok |-> TRUE,
          v |-> <<[time |-> vals["time"].v,
                   longitude |-> vals["longitude"].v,
                   latitude |-> vals["latitude"].v,
                   altitude |-> vals["altitude"].v]>>]

\* #[derive(Deserialize)] struct UplinkMetadata: every entry of a known key
\* is of its type and no duplicate, unknown keys are skipped, the text of the
\* object is JSON to its closing brace, and the four fields are there when
\* the object closes.
DeserializeMetadata(j) ==
    IF j.t \notin {"obj", "arr"} THEN [ok |-> FALSE, v |-> <<>>]
    ELSE MetadataOutcome(j, StructEntries(j, MetadataFields),
                         MetadataValues(StructEntries(j, MetadataFields)))

\* The Result of deserialize_payload as the value of a field.
PayloadField(p) == [ok |-> p.status = "ok", v |-> p]

\* The value of every field of UplinkMessage that has an entry, deserialized
\* as the type of the field (payload_raw: with deserialize_payload).
UplinkValues(e) ==
    [f \in Present(e, UplinkFields) |->
        IF f \in {"app_id", "dev_id", "hardware_serial"} THEN DeserializeStr(e[IndexOf(e, f)][2])
        ELSE IF f \in {"port", "counter"} THEN DeserializeU32(e[IndexOf(e, f)][2])
        ELSE IF f = "metadata" THEN DeserializeMetadata(e[IndexOf(e, f)][2])
        ELSE PayloadField(deserialize_payload(e[IndexOf(e, f)][2]))]

\* The outcome for the entries e of the line j with the values vals.  The
\* entries are visited in the order of the text and the first one that fails
\* ends the parse where it stands: a duplicate of a field, a value that is
\* not of the field's type (for "metadata": the nested struct failed, a field
\* missing in it included), or the payload decode, which returns an error or
\* panics.  The entries after it are not looked at.  A field of UplinkMessage
\* that is missing is reported after the last entry, when the object closes;
\* a text that goes wrong behind the last entry is an error there, after the
\* entries before it have been visited.
UplinkOutcome(j, e, vals) ==
    LET event(i) ==
            IF e[i][1] \notin Range(UplinkFields)
            THEN (IF WellFormed(e[i][2]) THEN "none" ELSE "err")
            ELSE IF IsDuplicate(e, i) THEN "err"
            ELSE IF vals[e[i][1]].ok THEN "none"
            ELSE IF e[i][1] = "payload_raw" THEN vals[e[i][1]].v.status
            ELSE "err"
        stops == {i \in 1..Len(e) : event(i) # "none"}
        stop == IF stops = {} THEN 0 ELSE MinOf(stops)
        called == /\ IndexOf(e, "payload_raw") > 0
                  /\ stop = 0 \/ IndexOf(e, "payload_raw") <= stop
        failed(st) == [status |-> st, msg |-> <<>>,
                       decode |-> IF called THEN <<vals["payload_raw"].v>> ELSE <<>>]
    IN  IF stop # 0 THEN failed(event(stop))
        ELSE IF j.cut \/ Incomplete(j, UplinkFields) THEN failed("err")
        ELSE [status |-> "ok",
              msg |-> <<[app_id |-> vals["app_id"].v,
                         dev_id |-> vals["dev_id"].v,
                         hardware_serial |-> vals["hardware_serial"].v,
                         port |-> vals["port"].v,
                         counter |-> vals["counter"].v,
                         metadata |-> vals["metadata"].v[1],
                         payload |-> vals["payload_raw"].v.payload]>>,
              decode |-> <<vals["payload_raw"].v>>]

\* serde_json::from_str::<UplinkMessage>(line).
\* status: "ok" | "err" | "panic" (the payload decode panicked); decode: the
\* outcome of deserialize_payload, <<>> when it was not called.
DeserializeUplink(j) ==
    IF j.t \notin {"obj", "arr"} THEN [status |-> "err", msg |-> <<>>, decode |-> <<>>]
    ELSE UplinkOutcome(j, StructEntries(j, UplinkFields),
                       UplinkValues(StructEntries(j, UplinkFields)))

\* ------------------------------------------------------------------- store

\* The column list of the prepared INSERT statement.
InsertColumns == <<"app_id", "dev_id", "hardware_serial", "port", "counter",
                   "time", "lon", "lat", "alt", "payload">>

\* Variant of InsertParams: dev_id is bound before app_id.
InsertParams_Reordered(m) ==
    <<m.dev_id, m.app_id, m.hardware_serial, m.port, m.counter,
      m.metadata.time, m.metadata.longitude, m.metadata.latitude,
      m.metadata.altitude, as_slice(m.payload)>>

\* The parameters process_line binds, in order.
InsertParams(m) == <<m.app_id, m.dev_id, m.hardware_serial, m.port, m.counter,
                     m.metadata.time, m.metadata.longitude, m.metadata.latitude,
                     m.metadata.altitude, as_slice(m.payload)>>

\* The columns of the table that are declared REAL NOT NULL.
RealColumns == {"lon", "lat", "alt"}

\* The value a REAL column holds for a bound f64: SQLite writes a REAL
\* without a fractional part into the record as an integer and converts it
\* back when it is read, so that a bound -0.0 is held as 0.0; every other
\* f64 a JSON number can yield is held as it was bound.
StoredReal(v) == IF v.m = <<>> THEN [v EXCEPT !.neg = FALSE] ELSE v

\* The row the statement inserts: the i-th parameter goes to the i-th
\* column, and the table holds it as the column's type holds it.
InsertedRow(params) ==
    [c \in {InsertColumns[i] : i \in 1..Len(InsertColumns)} |->
        LET p == params[CHOOSE i \in 1..Len(InsertColumns) : InsertColumns[i] = c]
        IN  IF c \in RealColumns THEN StoredReal(p) ELSE p]

\* Variant of CreateTableIfNotExists: the table is dropped and created anew
\* (DROP TABLE IF EXISTS data; CREATE TABLE data (...)).
CreateTable_Recreate(d) == [exists |-> TRUE, rows |-> <<>>]

\* CREATE TABLE IF NOT EXISTS data (...): creates an empty table when there
\* is none and leaves an existing table as it is.
CreateTableIfNotExists(d) == IF d.exists THEN d ELSE [exists |-> TRUE, rows |-> <<>>]

\* ------------------------------------------------------------------ inputs

Str(chars) == [t |-> "str", s |-> chars]
Number(neg, int, frac, exp) == [t |-> "num", neg |-> neg, int |-> int, frac |-> frac, exp |-> exp]
Num(int, frac) == Number(FALSE, int, frac, <<>>)
Obj(pairs) == [t |-> "obj", o |-> pairs, cut |-> FALSE]
Arr(elements) == [t |-> "arr", a |-> elements, cut |-> FALSE]

\* "2020-01-01T00:00:00Z"
TimeText == <<50, 48, 50, 48, 45, 48, 49, 45, 48, 49, 84,
              48, 48, 58, 48, 48, 58, 48, 48, 90>>

\* {"time":"2020-01-01T00:00:00Z","longitude":1.5,"latitude":2.5,"altitude":3.5}
GoodMetadata ==
    Obj(<< <<"time", Str(TimeText)>>,
           <<"longitude", Num(<<1>>, <<5>>)>>,
           <<"latitude", Num(<<2>>, <<5>>)>>,
           <<"altitude", Num(<<3>>, <<5>>)>> >>)

\* {"app_id":"a1","dev_id":"d1","hardware_serial":"h1","port":1,"counter":2,
\*  "metadata":{"time":"2020-01-01T00:00:00Z","longitude":1.5,"latitude":2.5,
\*  "altitude":3.5},"payload_raw":<raw>}
UplinkLine(raw) ==
    Obj(<< <<"app_id", Str(<<97, 49>>)>>,
           <<"dev_id", Str(<<100, 49>>)>>,
           <<"hardware_serial", Str(<<104, 49>>)>>,
           <<"port", Num(<<1>>, <<>>)>>,
           <<"counter", Num(<<2>>, <<>>)>>,
           <<"metadata", GoodMetadata>>,
           <<"payload_raw", Str(raw)>> >>)

\* The object with the value of one key replaced.
WithField(l, f, v) ==
    [l EXCEPT !.o = [i \in 1..Len(l.o) |-> IF l.o[i][1] = f THEN <<f, v>> ELSE l.o[i]]]

\* The object without one key.
WithoutField(l, f) == [l EXCEPT !.o = SelectSeq(l.o, LAMBDA e : e[1] # f)]

\* The object with one more entry at its end.
WithEntry(l, f, v) == [l EXCEPT !.o = Append(l.o, <<f, v>>)]

\* The object with one key written last (The Things Network writes
\* "payload_raw" before "metadata").
MoveLast(l, f) == WithEntry(WithoutField(l, f), f, l.o[IndexOf(l.o, f)][2])

\* The values of the object as a JSON array.
AsArray(l) == Arr([i \in 1..Len(l.o) |-> l.o[i][2]])

\* The text of an object or array followed by characters that are no JSON
\* (GoodLine followed by "x"), or with its last bracket left out.
Cut(l) == [l EXCEPT !.cut = TRUE]

\* The first n entries of the object.
FirstEntries(l, n) == [l EXCEPT !.o = SubSeq(l.o, 1, n)]

\* The text with the character at a (zero-based) offset replaced.
WithChar(text, offset, c) == [text EXCEPT ![offset + 1] = c]

\* A payload of n bytes that are neither constant nor periodic in 3.
PatternBytes(n, seed) == [i \in 1..n |-> (seed + 7 * i + (i \div 5)) % 256]

\* "AQID": the bytes 1, 2, 3
GoodLine == UplinkLine(<<65, 81, 73, 68>>)
Over513Line == UplinkLine(Base64Encode(PatternBytes(MAX_PAYLOAD_SIZE + 1, 11)))
\* not json
NotJsonLine == [t |-> "invalid"]

Item(text) == [io |-> "ok", text |-> text]
\* A line that is not UTF-8: lines() yields Err(InvalidData) for it.
BadUtf8Item == [io |-> "err", text |-> NotJsonLine]

\* The stream items of the streams of several lines.
CoreItems == {Item(GoodLine), Item(Over513Line), Item(NotJsonLine), BadUtf8Item}

\* Payloads for single-line streams: every byte sequence over three values
\* up to MaxBlobLen, and long ones up to the capacity.
BlobBytes == {0, 1, 255}
Blobs ==
    UNION {[1..n -> BlobBytes] : n \in 0..MaxBlobLen}
    \cup {PatternBytes(n, sd) : n \in (MAX_PAYLOAD_SIZE - 2)..MAX_PAYLOAD_SIZE, sd \in {0, 200}}

\* {"time":"2020-01-01T00:00:00Z"}
TimeOnlyMetadata == Obj(<< <<"time", Str(TimeText)>> >>)

\* 1 followed by 400 zeros
HugeNumber == Num([i \in 1..401 |-> IF i = 1 THEN 1 ELSE 0], <<>>)

\* The Base64 text of 600 bytes.
Text600 == Base64Encode(PatternBytes(MAX_PAYLOAD_SIZE + 88, 11))

\* Lines that differ from GoodLine in the value of one field.
FieldVariants ==
    {WithField(GoodLine, "app_id", Str(<<>>)),
     WithField(GoodLine, "dev_id", Str(<<>>)),
     WithField(GoodLine, "hardware_serial", Str(<<>>)),
     \* "a\u0031": the same text as "a1", its second character escaped
     WithField(GoodLine, "app_id", Str(<<97, Esc(49)>>)),
     \* "\/w==": "/w==" with the solidus escaped
     WithField(GoodLine, "payload_raw", Str(<<Esc(47), 119, 61, 61>>)),
     WithField(GoodLine, "port", Num(U32_MAX, <<>>)),
     WithField(GoodLine, "counter", Num(<<4, 2, 9, 4, 9, 6, 7, 2, 9, 6>>, <<>>)),
     WithField(GoodLine, "port", Number(TRUE, <<1>>, <<>>, <<>>)),
     WithField(GoodLine, "port", Num(<<1>>, <<0>>)),
     WithField(GoodLine, "port", Number(FALSE, <<1>>, <<>>, <<0>>)),
     WithField(GoodLine, "port", Str(<<49>>)),
     WithField(GoodLine, "metadata", [t |-> "null"]),
     \* "A", "AQ!D", "AR==", "A===", "AQ" (padding left out), "AQIDA"
     UplinkLine(<<65>>), UplinkLine(<<65, 81, 33, 68>>), UplinkLine(<<65, 82, 61, 61>>),
     UplinkLine(<<65, 61, 61, 61>>), UplinkLine(<<65, 81>>),
     UplinkLine(<<65, 81, 73, 68, 65>>),
     \* "AQIDBA" (padding left out), "AQIDBAU=", "AQIDBAUG="
     UplinkLine(<<65, 81, 73, 68, 66, 65>>),
     UplinkLine(<<65, 81, 73, 68, 66, 65, 85, 61>>),
     UplinkLine(<<65, 81, 73, 68, 66, 65, 85, 71, 61>>),
     \* payloads that end in each stage of the decoder
     UplinkLine(Base64Encode(PatternBytes(6, 11))),
     UplinkLine(Base64Encode(PatternBytes(25, 11))),
     UplinkLine(Base64Encode(PatternBytes(49, 11))),
     UplinkLine(Base64Encode(PatternBytes(MAX_PAYLOAD_SIZE - 1, 11))),
     \* 514 bytes, and the same text with "!" for its last character
     UplinkLine(Base64Encode(PatternBytes(MAX_PAYLOAD_SIZE + 2, 11))),
     UplinkLine(WithChar(Base64Encode(PatternBytes(MAX_PAYLOAD_SIZE + 2, 11)), 687, 33)),
     UplinkLine(Text600),
     \* 600 bytes with "!" at the front, in the last block that fits the
     \* buffer, in the first block that does not, and at the end
     UplinkLine(WithChar(Text600, 0, 33)),
     UplinkLine(WithChar(Text600, 671, 33)),
     UplinkLine(WithChar(Text600, 683, 33)),
     UplinkLine(WithChar(Text600, 799, 33)),
     \* 801 characters, the last one a symbol, the last one "!"
     UplinkLine(Append(Text600, 65)),
     UplinkLine(Append(Text600, 33)),
     \* a tab in a string
     WithField(GoodLine, "app_id", Str(<<97, 9>>)),
     WithField(GoodLine, "payload_raw", Str(<<65, 81, 73, 9>>)),
     UplinkLine(Append(Text600, 9))}

\* Lines that differ from GoodLine in the numbers of the metadata.
NumberVariants ==
    {WithField(GoodLine, "metadata",
               WithField(WithField(WithField(WithField(GoodMetadata,
                   "time", Str(<<>>)),
                   "longitude", Num(<<1>>, <<>>)),
                   "latitude", Num(<<2>>, <<5, 0>>)),
                   "altitude", Number(TRUE, <<0>>, <<2, 5>>, <<>>))),
     \* -0.0, -0, -1e-400
     WithField(GoodLine, "metadata",
               WithField(WithField(WithField(GoodMetadata,
                   "longitude", Number(TRUE, <<0>>, <<0>>, <<>>)),
                   "latitude", Number(TRUE, <<0>>, <<>>, <<>>)),
                   "altitude", Number(TRUE, <<1>>, <<>>, <<-400>>))),
     \* 15e-1, 0.0015e3, 1e-400
     WithField(GoodLine, "metadata",
               WithField(WithField(WithField(GoodMetadata,
                   "longitude", Number(FALSE, <<1, 5>>, <<>>, <<-1>>)),
                   "latitude", Number(FALSE, <<0>>, <<0, 0, 1, 5>>, <<3>>)),
                   "altitude", Number(FALSE, <<1>>, <<>>, <<-400>>))),
     \* 0.10000000000000000001, 0.99999999999999999999, 12345678901234567890
     WithField(GoodLine, "metadata",
               WithField(WithField(WithField(GoodMetadata,
                   "longitude", Num(<<0>>, [i \in 1..20 |-> IF i \in {1, 20} THEN 1 ELSE 0])),
                   "latitude", Num(<<0>>, [i \in 1..20 |-> 9])),
                   "altitude", Num([i \in 1..20 |-> i % 10], <<>>))),
     \* 63.799075116372651676, 3972997528820.0182, 18446744073709551619.0
     WithField(GoodLine, "metadata",
               WithField(WithField(WithField(GoodMetadata,
                   "longitude", Num(<<6, 3>>, <<7, 9, 9, 0, 7, 5, 1, 1, 6, 3, 7, 2, 6, 5, 1, 6, 7, 6>>)),
                   "latitude", Num(<<3, 9, 7, 2, 9, 9, 7, 5, 2, 8, 8, 2, 0>>, <<0, 1, 8, 2>>)),
                   "altitude", Num(<<1, 8, 4, 4, 6, 7, 4, 4, 0, 7, 3, 7, 0, 9, 5, 5, 1, 6, 1, 9>>, <<0>>))),
     \* 1.79769313486231575e308, 2.4e-324, 5e-324
     WithField(GoodLine, "metadata",
               WithField(WithField(WithField(GoodMetadata,
                   "longitude", Number(FALSE, <<1>>, <<7, 9, 7, 6, 9, 3, 1, 3, 4, 8, 6, 2, 3, 1, 5, 7, 5>>, <<308>>)),
                   "latitude", Number(FALSE, <<2>>, <<4>>, <<-324>>)),
                   "altitude", Number(FALSE, <<5>>, <<>>, <<-324>>))),
     \* 179769313486231570000e288, 1.7976931348623159e308
     WithField(GoodLine, "metadata",
               WithField(GoodMetadata, "latitude",
                   Number(FALSE, <<1, 7, 9, 7, 6, 9, 3, 1, 3, 4, 8, 6, 2, 3, 1, 5, 7, 0, 0, 0, 0>>,
                          <<>>, <<288>>))),
     WithField(GoodLine, "metadata",
               WithField(GoodMetadata, "latitude",
                   Number(FALSE, <<1>>, <<7, 9, 7, 6, 9, 3, 1, 3, 4, 8, 6, 2, 3, 1, 5, 9>>, <<308>>))),
     WithField(GoodLine, "metadata", WithField(GoodMetadata, "longitude", HugeNumber)),
     WithField(GoodLine, "metadata",
               WithField(GoodMetadata, "altitude", Number(TRUE, <<1>>, <<>>, <<309>>))),
     WithField(GoodLine, "metadata",
               WithField(GoodMetadata, "altitude", Number(FALSE, <<1>>, <<>>, <<308>>))),
     WithField(Over513Line, "metadata", WithField(GoodMetadata, "longitude", HugeNumber)),
     MoveLast(WithField(Over513Line, "metadata",
                        WithField(GoodMetadata, "longitude", HugeNumber)), "metadata")}

\* Lines that differ from GoodLine or Over513Line in their keys: a key
\* missing, twice, unknown, in another order, or no keys at all (an array).
ShapeVariants ==
    {WithoutField(GoodLine, "dev_id"),
     WithoutField(GoodLine, "payload_raw"),
     WithoutField(Over513Line, "app_id"),
     WithField(GoodLine, "metadata", TimeOnlyMetadata),
     WithField(GoodLine, "metadata", Obj(<<>>)),
     WithField(Over513Line, "metadata", TimeOnlyMetadata),
     WithField(Over513Line, "metadata", Obj(<<>>)),
     WithField(Over513Line, "port", Str(<<49>>)),
     MoveLast(GoodLine, "metadata"),
     MoveLast(WithField(GoodLine, "metadata", TimeOnlyMetadata), "metadata"),
     MoveLast(WithField(Over513Line, "metadata", TimeOnlyMetadata), "metadata"),
     MoveLast(WithField(Over513Line, "metadata", Num(<<1>>, <<>>)), "metadata"),
     MoveLast(WithField(Over513Line, "port", Str(<<49>>)), "port"),
     WithEntry(GoodLine, "app_id", Str(<<98>>)),
     WithEntry(Over513Line, "payload_raw", Str(<<65, 81, 73, 68>>)),
     MoveLast(WithEntry(Over513Line, "app_id", Str(<<98>>)), "payload_raw"),
     WithEntry(GoodLine, "downlink_url", Str(<<117>>)),
     WithField(GoodLine, "metadata", WithEntry(GoodMetadata, "time", Str(<<>>))),
     WithField(GoodLine, "metadata", WithEntry(GoodMetadata, "gateways", Arr(<<>>))),
     WithField(GoodLine, "metadata", MoveLast(GoodMetadata, "time")),
     AsArray(GoodLine),
     AsArray(WithField(GoodLine, "metadata", AsArray(GoodMetadata))),
     AsArray(WithoutField(GoodLine, "payload_raw")),
     AsArray(WithEntry(GoodLine, "downlink_url", Str(<<117>>))),
     AsArray(WithEntry(Over513Line, "downlink_url", Str(<<117>>))),
     AsArray(WithField(Over513Line, "port", Str(<<49>>))),
     Str(<<97>>),
     [t |-> "null"],
     \* the text goes wrong: behind the closing brace, behind "counter",
     \* inside the metadata, in the value of an unknown key
     Cut(GoodLine),
     Cut(Over513Line),
     Cut(MoveLast(Over513Line, "metadata")),
     Cut(FirstEntries(GoodLine, 5)),
     Cut(AsArray(GoodLine)),
     Cut(AsArray(Over513Line)),
     WithField(GoodLine, "metadata", Cut(GoodMetadata)),
     WithField(Over513Line, "metadata", Cut(GoodMetadata)),
     MoveLast(WithField(Over513Line, "metadata", Cut(GoodMetadata)), "metadata"),
     WithEntry(GoodLine, "downlink_url", [t |-> "invalid"]),
     WithEntry(Over513Line, "downlink_url", [t |-> "invalid"]),
     MoveLast(WithEntry(Over513Line, "downlink_url", Str(<<117, 9>>)), "payload_raw"),
     WithField(GoodLine, "metadata",
               WithEntry(GoodMetadata, "gateways", Cut(Arr(<<Num(<<1>>, <<>>)>>))))}

VariantLines == FieldVariants \cup NumberVariants \cup ShapeVariants

\* The input streams: every stream of up to MaxLines core items, and every
\* stream of one line out of the variants and the encoded blobs.
Streams ==
    UNION {[1..n -> CoreItems] : n \in 0..MaxLines}
    \cup {<<Item(l)>> : l \in VariantLines}
    \cup {<<Item(UplinkLine(Base64Encode(b)))>> : b \in Blobs}

\* A row an earlier run left in the table.
PriorRow ==
    [app_id |-> <<112>>, dev_id |-> <<113>>, hardware_serial |-> <<114>>,
     port |-> <<7>>, counter |-> <<9>>, time |-> <<116>>,
     lon |-> DeserializeF64(Num(<<0>>, <<>>)).v,
     lat |-> DeserializeF64(Num(<<0>>, <<>>)).v,
     alt |-> DeserializeF64(Number(TRUE, <<4>>, <<5>>, <<>>)).v,
     payload |-> <<9, 8>>]

\* The store file before the run: absent (no table), or one that an earlier
\* run created and filled.
InitialStores == {[exists |-> FALSE, rows |-> <<>>],
                  [exists |-> TRUE, rows |-> <<PriorRow, PriorRow>>]}

\* Every line a stream of the catalogue holds, and what
\* serde_json::from_str::<UplinkMessage> makes of it.
Lines == {it.text : it \in UNION {Range(st) : st \in Streams}}

FromStr == [l \in Lines |-> DeserializeUplink(l)]

\* ------------------------------------------------------------------- state

VARIABLES
    pc,        \* where main stands: "open", "create", "prepare", "reading",
               \* "deserialize", "log", "execute", "report", "exited"
    exit,      \* "running", "Ok" (status 0), "Err:open", "Err:create",
               \* "Err:prepare" (main returned Err), "panic:decode",
               \* "panic:stdout" (the process died of a panic)
    db,        \* the store: [exists: is there a table data, rows: its rows]
    db0,       \* the store as the run found it
    stdin,     \* the input stream
    pos,       \* number of stream items the lines() iterator has yielded
    line,      \* <<l>>: the line process_line is working on
    msg,       \* <<m>>: the UplinkMessage of process_line
    decode,    \* <<d>>: the Payload of the last deserialize_payload call
    results,   \* the Result of every iteration so far: "Ok", "Io", "Json", "SQLite"
    console    \* what stdout holds: the summaries and error reports printed,
               \* and a last one in part when its println! panicked

vars == <<pc, exit, db, db0, stdin, pos, line, msg, decode, results, console>>

Init ==
    /\ pc = "open"
    /\ exit = "running"
    /\ db \in InitialStores
    /\ db0 = db
    /\ stdin \in Streams
    /\ pos = 0
    /\ line = <<>>
    /\ msg = <<>>
    /\ decode = <<>>
    /\ results = <<>>
    /\ console = <<>>

\* main returns Err(e) from one of its three "?" before the loop.
Fail(how) ==
    /\ pc' = "exited"
    /\ exit' = how
    /\ UNCHANGED <<db, db0, stdin, pos, line, msg, decode, results, console>>

\* Connection::open(&db_path)?
Open ==
    /\ pc = "open"
    /\ \E ok \in BOOLEAN :
          IF ok
          THEN /\ pc' = "create"
               /\ UNCHANGED <<exit, db, db0, stdin, pos, line, msg, decode, results, console>>
          ELSE Fail("Err:open")

\* db_connection.execute("CREATE TABLE IF NOT EXISTS data (...)", NO_PARAMS)?
CreateTable ==
    /\ pc = "create"
    /\ \E ok \in BOOLEAN :
          IF ok
          THEN /\ pc' = "prepare"
               /\ db' = CreateTableIfNotExists(db)
               /\ UNCHANGED <<exit, db0, stdin, pos, line, msg, decode, results, console>>
          ELSE Fail("Err:create")

\* db_connection.prepare("INSERT INTO data (...) VALUES (?, ...)")?
Prepare ==
    /\ pc = "prepare"
    /\ \E ok \in BOOLEAN :
          IF ok /\ db.exists
          THEN /\ pc' = "reading"
               /\ UNCHANGED <<exit, db, db0, stdin, pos, line, msg, decode, results, console>>
          ELSE Fail("Err:prepare")

\* for line in stdin.lock().lines(): the iterator's next item.  None ends
\* the loop and main returns Ok(()); an Err item is the iteration's result
\* without a call of process_line.
ReadLine ==
    /\ pc = "reading"
    /\ IF pos = Len(stdin)
       THEN /\ pc' = "exited"
            /\ exit' = "Ok"
            /\ UNCHANGED <<pos, line, decode, results>>
       ELSE /\ pos' = pos + 1
            /\ decode' = <<>>
            /\ exit' = exit
            /\ IF stdin[pos + 1].io = "ok"
               THEN /\ line' = <<stdin[pos + 1].text>>
                    /\ pc' = "deserialize"
                    /\ results' = results
               ELSE /\ line' = <<>>
                    /\ pc' = "report"
                    /\ results' = Append(results, "Io")
    /\ UNCHANGED <<db, db0, stdin, msg, console>>

\* process_line: let msg: UplinkMessage = serde_json::from_str(&line)?
\* A panic of the payload decode unwinds through main: the process dies.
Deserialize ==
    /\ pc = "deserialize"
    /\ LET r == FromStr[line[1]]
       IN  /\ decode' = r.decode
           /\ msg' = r.msg
           /\ pc' = IF r.status = "ok" THEN "log"
                    ELSE IF r.status = "err" THEN "report" ELSE "exited"
           /\ exit' = IF r.status = "panic" THEN "panic:decode" ELSE exit
           /\ results' = IF r.status = "err" THEN Append(results, "Json") ELSE results
    /\ UNCHANGED <<db, db0, stdin, pos, line, console>>

\* What stdout holds of a text that did not get there as a whole.
Fragment(entry) == [kind |-> "fragment", of |-> entry]

\* println! panics ("failed printing to stdout") when a write to stdout
\* fails (a closed pipe, a full device): the panic unwinds through main and
\* the process dies.  stdout is line-buffered, and of the text of the
\* println! it then holds
\*  - nothing, or
\*  - a part: what a short write stored before the failure, or, of the error
\*    report, its first line "Error while processing message:", which is
\*    written on its own before the text of the error, or
\*  - all: the line whose write failed stays in the buffer of stdout, and
\*    the runtime writes the buffer once more when the process exits.
StdoutPanic(entry) ==
    /\ pc' = "exited"
    /\ exit' = "panic:stdout"
    /\ console' \in {console, Append(console, Fragment(entry)), Append(console, entry)}
    /\ UNCHANGED <<db, db0, stdin, pos, line, msg, decode, results>>

\* process_line: println!("Received uplink message (...)")
LogSummary ==
    /\ pc = "log"
    /\ LET entry == [kind |-> "received",
                     app_id |-> msg[1].app_id,
                     dev_id |-> msg[1].dev_id,
                     time |-> msg[1].metadata.time,
                     size |-> msg[1].payload.size]
       IN  \E ok \in BOOLEAN :
              IF ok
              THEN /\ console' = Append(console, entry)
                   /\ pc' = "execute"
                   /\ UNCHANGED <<exit, db, db0, stdin, pos, line, msg, decode, results>>
              ELSE StdoutPanic(entry)

\* process_line: db_stmt.execute(&[...])?; Ok(()).  The store accepts the
\* row or fails the statement (full disk, locked file, ...).
Execute ==
    /\ pc = "execute"
    /\ \E ok \in BOOLEAN :
          IF ok
          THEN /\ db' = [db EXCEPT !.rows = Append(@, InsertedRow(InsertParams(msg[1])))]
               /\ results' = Append(results, "Ok")
               /\ pc' = "reading"
          ELSE /\ db' = db
               /\ results' = Append(results, "SQLite")
               /\ pc' = "report"
    /\ msg' = <<>>
    /\ line' = <<>>
    /\ UNCHANGED <<exit, db0, stdin, pos, decode, console>>

\* println!("Error while processing message:\n{:}", err)
ReportError ==
    /\ pc = "report"
    /\ LET entry == [kind |-> "error", err |-> results[Len(results)]]
       IN  \E ok \in BOOLEAN :
              IF ok
              THEN /\ console' = Append(console, entry)
                   /\ pc' = "reading"
                   /\ line' = <<>>
                   /\ UNCHANGED <<exit, db, db0, stdin, pos, msg, decode, results>>
              ELSE StdoutPanic(entry)

Next ==
    \/ Open
    \/ CreateTable
    \/ Prepare
    \/ ReadLine
    \/ Deserialize
    \/ LogSummary
    \/ Execute
    \/ ReportError

Spec == Init /\ [][Next]_vars

\* ------------------------------------------------------------- vocabulary

\* The loop has been entered: the three startup steps succeeded.
LoopEntered == pc \in {"reading", "deserialize", "log", "execute", "report"}
               \/ exit \in {"Ok", "panic:decode", "panic:stdout"}

\* The rows this run has added to the table.
AddedRows == SubSeq(db.rows, Len(db0.rows) + 1, Len(db.rows))

CountResults(S) == Cardinality({i \in 1..Len(results) : results[i] \in S})

CountConsole(k) == Cardinality({i \in 1..Len(console) : console[i].kind = k})

\* The stream item of the current iteration, whether its Result is known, and
\* whether it is a line that serde_json::from_str has been through.
CurrentItem == stdin[pos]
Settled == pos > 0 /\ Len(results) = pos
Decoded == pos > 0 /\ CurrentItem.io = "ok" /\ pc # "deserialize"

Last(q) == q[Len(q)]

\* The summary line of a message.
Summary(m) == [kind |-> "received", app_id |-> m.app_id, dev_id |-> m.dev_id,
               time |-> m.metadata.time, size |-> m.payload.size]

\* The Base64 text of every blob.
RoundTripTable == [b \in Blobs |-> Base64Encode(b)]

\* RFC 4648 standard Base64 as an encoder writes it: whole quads of alphabet
\* symbols, the last one padded with at most two '='.
IsStandardBase64(text) ==
    LET n == Len(text)
        pads == IF n >= 2 /\ text[n] = PAD_BYTE /\ text[n - 1] = PAD_BYTE THEN 2
                ELSE IF n >= 1 /\ text[n] = PAD_BYTE THEN 1 ELSE 0
    IN  /\ n % 4 = 0
        /\ \A i \in 1..(n - pads) : DecodeTable[text[i]] < 64
        /\ pads = 2 => DecodeTable[text[n - 2]] % 16 = 0
        /\ pads = 1 => DecodeTable[text[n - 1]] % 4 = 0

\* The number of bytes a standard Base64 text stands for.
StandardDecodedLen(text) ==
    LET n == Len(text)
    IN  3 * (n \div 4)
        - (IF n >= 2 /\ text[n] = PAD_BYTE /\ text[n - 1] = PAD_BYTE THEN 2
           ELSE IF n >= 1 /\ text[n] = PAD_BYTE THEN 1 ELSE 0)

\* An integer in 0..2^32-1; a number an f64 holds.
IsU32Token(j) ==
    j.t = "num" /\ ~j.neg /\ j.frac = <<>> /\ j.exp = <<>> /\ DigitsLeq(j.int, U32_MAX)

\* The number a token denotes is digits * 10^exp10.
TokenDigits(j) == StripLeadingZeros(j.int \o j.frac)
TokenExp10(j) == (IF j.exp = <<>> THEN 0 ELSE j.exp[1]) - Len(j.frac)

\* Beyond these decimal orders of magnitude a number is above every f64, or
\* rounds to zero.
DECIMAL_MAX == 310
DECIMAL_MIN == -330

\* The f64 nearest to num / den * 2^scale: the one of bn and bd bits that is
\* shorter is shifted to the length of the other before the division.
F64RatioShifted(num, den, scale, bn, bd) ==
    F64OfQuotient(NatDivShifted(NatShiftLeft(num, IF bd > bn THEN bd - bn ELSE 0),
                                NatShiftLeft(den, IF bn > bd THEN bn - bd ELSE 0),
                                F64_MANT_BITS + 3),
                  scale + (bn - bd) - (F64_MANT_BITS + 3))

F64Ratio(num, den, scale) == F64RatioShifted(num, den, scale, BitLen(num), BitLen(den))

\* The f64 nearest to nat * 10^exp10 for a number nat of len decimal digits
\* (ties to even; inf when the number is above every f64).
F64Scaled(nat, len, exp10) ==
    IF nat = <<>> THEN F64Zero
    ELSE IF len + exp10 > DECIMAL_MAX THEN F64Inf
    ELSE IF len + exp10 < DECIMAL_MIN THEN F64Zero
    ELSE IF exp10 >= 0 THEN F64Round(NatMul(nat, Pow5(exp10)), exp10)
    ELSE F64Ratio(nat, Pow5(-exp10), exp10)

\* The f64 a number token denotes: the one nearest to it, with its sign; not
\* ok when the number is above every f64.
F64NearestOf(neg, r) == F64Signed(neg, [ok |-> ~r.inf, v |-> r])

F64Nearest(j) ==
    F64NearestOf(j.neg, F64Scaled(NatFromDigits(TokenDigits(j)), Len(TokenDigits(j)),
                                  TokenExp10(j)))

\* The values of the keys of an object.
EntryValues(j) == IF j.t = "obj" THEN {j.o[i][2] : i \in 1..Len(j.o)} ELSE {}

\* The number tokens in the metadata of the lines of the catalogue, and the
\* f64 each of them denotes.
NumberTokens ==
    {v \in UNION {EntryValues(md) : md \in UNION {EntryValues(l) : l \in Lines}} : v.t = "num"}

NearestTable == [j \in NumberTokens |-> F64Nearest(j)]

Nearest(j) == IF j \in NumberTokens THEN NearestTable[j] ELSE F64Nearest(j)

IsF64Token(j) == j.t = "num" /\ Nearest(j).ok

\* The value of a key of an object that has the key.
Field(l, f) == l.o[IndexOf(l.o, f)][2]

\* The value a line gives for a field of UplinkMessage: the one of the first
\* entry with the key, or the array element at the place of the field.
LineField(l, f) ==
    StructEntries(l, UplinkFields)[IndexOf(StructEntries(l, UplinkFields), f)][2]

\* The line gives chars, written between quotes without an escape sequence,
\* as the value of the field f: as the value of the key f of an object, which
\* has the key once, or as the element of an array at the place of f.
GivesString(l, f, chars) ==
    IF l.t = "obj"
    THEN /\ Cardinality({k \in 1..Len(l.o) : l.o[k][1] = f}) = 1
         /\ \A k \in 1..Len(l.o) :
                l.o[k][1] = f => l.o[k][2].t = "str" /\ l.o[k][2].s = chars
    ELSE /\ l.t = "arr"
         /\ \E k \in 1..Len(UplinkFields) :
                /\ UplinkFields[k] = f /\ k <= Len(l.a)
                /\ l.a[k].t = "str" /\ l.a[k].s = chars

\* The object has every one of the keys once.
HasKeysOnce(l, fields) ==
    \A f \in Range(fields) : Cardinality({i \in 1..Len(l.o) : l.o[i][1] = f}) = 1

\* The line is a JSON text, an object with the fields of the documented
\* schema, in any order, each of its documented type; the payload may be of
\* any length.
HasSchemaShape(l) ==
    /\ l.t = "obj"
    /\ WellFormed(l)
    /\ HasKeysOnce(l, UplinkFields)
    /\ \A f \in {"app_id", "dev_id", "hardware_serial", "payload_raw"} : Field(l, f).t = "str"
    /\ IsU32Token(Field(l, "port")) /\ IsU32Token(Field(l, "counter"))
    /\ Field(l, "metadata").t = "obj"
    /\ HasKeysOnce(Field(l, "metadata"), MetadataFields)
    /\ Field(Field(l, "metadata"), "time").t = "str"
    /\ \A f \in {"longitude", "latitude", "altitude"} :
           IsF64Token(Field(Field(l, "metadata"), f))
    /\ IsStandardBase64(StrValue(Field(l, "payload_raw").s))

\* The payload text of a line of the documented shape.
PayloadText(l) == StrValue(Field(l, "payload_raw").s)

\* ... and the payload within the documented size.
MatchesSchema(l) ==
    /\ HasSchemaShape(l)
    /\ StandardDecodedLen(PayloadText(l)) <= MAX_PAYLOAD_SIZE

\* No string of the line is written with an escape sequence.
NoEscapes(l) ==
    /\ \A f \in {"app_id", "dev_id", "hardware_serial", "payload_raw"} :
           ~HasEscape(Field(l, f).s)
    /\ ~HasEscape(Field(Field(l, "metadata"), "time").s)

\* The row the documented schema promises for a line.
ExpectedRow(l) ==
    LET md == Field(l, "metadata")
        r == Base64DecodeSlice(PayloadText(l),
                               [i \in 1..StandardDecodedLen(PayloadText(l)) |-> 0])
    IN  [app_id |-> StrValue(Field(l, "app_id").s),
         dev_id |-> StrValue(Field(l, "dev_id").s),
         hardware_serial |-> StrValue(Field(l, "hardware_serial").s),
         port |-> Field(l, "port").int,
         counter |-> Field(l, "counter").int,
         time |-> StrValue(Field(md, "time").s),
         lon |-> Nearest(Field(md, "longitude")).v,
         lat |-> Nearest(Field(md, "latitude")).v,
         alt |-> Nearest(Field(md, "altitude")).v,
         payload |-> r.bytes]

\* ------------------------------------------------------------------ claims

\* C1 (as claimed): a line whose payload_raw is standard Base64 for exactly
\* 512 bytes decodes with size 512, and one for 513 bytes or more makes the
\* decode return an error value: the iteration's result is the JSON error and
\* the process keeps running.
C1_DecodeBoundary ==
    (Decoded /\ HasSchemaShape(CurrentItem.text) /\ NoEscapes(CurrentItem.text)) =>
        LET n == StandardDecodedLen(PayloadText(CurrentItem.text))
        IN  /\ n = MAX_PAYLOAD_SIZE =>
                  /\ decode # <<>>
                  /\ decode[1].status = "ok"
                  /\ decode[1].payload.size = MAX_PAYLOAD_SIZE
            /\ n > MAX_PAYLOAD_SIZE =>
                  /\ exit # "panic:decode"
                  /\ decode # <<>> /\ decode[1].status = "err"
                  /\ Settled => results[pos] = "Json"

\* C2: every Payload that exists has a buffer of 512 bytes and
\* 0 <= size <= 512, the decode stored to no index outside [0, 512) and left
\* the buffer beyond its last store as Payload::empty made it, as_slice is
\* the first size bytes of the buffer and nothing else, and no persisted
\* payload is longer than 512 bytes.
C2_PayloadBound ==
    /\ \A i \in 1..Len(decode) :
          /\ Len(decode[i].payload.bytes) = MAX_PAYLOAD_SIZE
          /\ decode[i].payload.size \in 0..MAX_PAYLOAD_SIZE
          /\ decode[i].written \in 0..MAX_PAYLOAD_SIZE
          /\ Len(as_slice(decode[i].payload)) = decode[i].payload.size
          /\ as_slice(decode[i].payload)
               = [k \in 1..decode[i].payload.size |-> decode[i].payload.bytes[k]]
          /\ \A k \in (decode[i].written + 1)..Len(decode[i].payload.bytes) :
                 decode[i].payload.bytes[k] = 0
    /\ \A i \in 1..Len(msg) :
          /\ Len(msg[i].payload.bytes) = MAX_PAYLOAD_SIZE
          /\ msg[i].payload.size \in 0..MAX_PAYLOAD_SIZE
          /\ Len(as_slice(msg[i].payload)) = msg[i].payload.size
    /\ \A i \in 1..Len(AddedRows) : Len(AddedRows[i].payload) <= MAX_PAYLOAD_SIZE

\* C2 witness: a payload that fills the buffer has been decoded and persisted.
C2_Witness ==
    /\ decode # <<>> /\ decode[1].payload.size = MAX_PAYLOAD_SIZE
    /\ \E i \in 1..Len(AddedRows) : Len(AddedRows[i].payload) = MAX_PAYLOAD_SIZE

\* C3 (as claimed): once the process has ended after entering the loop, every
\* stream item has had its iteration, the rows added are as many as the
\* iterations that succeeded and the errors reported as many as those that
\* failed.
C3_FailureIsolation ==
    (LoopEntered /\ pc = "exited") =>
        /\ Len(results) = Len(stdin)
        /\ Len(AddedRows) = CountResults({"Ok"})
        /\ CountConsole("error") = Len(stdin) - CountResults({"Ok"})

\* C4 (as claimed): an exit other than Ok is one of the three startup
\* failures.
C4_ExitBehaviour ==
    exit \notin {"running", "Ok"} => exit \in {"Err:open", "Err:create", "Err:prepare"}

\* C5 (as claimed): the summary is printed once for every line that decoded
\* and for no other, before the insert is attempted: a message that has left
\* the print step has its summary as the last line of the console, the
\* summaries are as many as the inserts attempted or about to be, and the
\* rows as many as the inserts that succeeded.
C5_LogBeforePersist ==
    /\ (msg # <<>> /\ pc # "log") => (console # <<>> /\ Last(console) = Summary(msg[1]))
    /\ CountConsole("received")
         = CountResults({"Ok", "SQLite"}) + (IF pc = "execute" THEN 1 ELSE 0)
    /\ Len(AddedRows) = CountResults({"Ok"})

\* C6 (as claimed): a line that matches the documented schema, whatever its
\* string values, decodes, and when the store accepts the insert the new row
\* holds the line's fields and the decoded payload.
C6_FieldFidelity ==
    (Decoded /\ MatchesSchema(CurrentItem.text)) =>
        /\ exit # "panic:decode"
        /\ Settled => results[pos] \in {"Ok", "SQLite"}
        /\ (Settled /\ results[pos] = "Ok") =>
               Last(db.rows) = ExpectedRow(CurrentItem.text)

\* C7: when deserialize_payload is called with the standard Base64 text of a
\* byte sequence of up to 512 bytes, it yields a Payload of that length whose
\* as_slice is the byte sequence.
C7_RoundTrip ==
    (Decoded /\ decode # <<>> /\ LineField(CurrentItem.text, "payload_raw").t = "str") =>
        \A b \in Blobs :
            (/\ Len(LineField(CurrentItem.text, "payload_raw").s) = 4 * ((Len(b) + 2) \div 3)
             /\ LineField(CurrentItem.text, "payload_raw").s = RoundTripTable[b])
            => /\ decode[1].status = "ok"
               /\ decode[1].payload.size = Len(b)
               /\ as_slice(decode[1].payload) = b

\* C7 witness: the encoding of 512 patterned bytes has been decoded.
C7_Witness ==
    /\ Decoded
    /\ CurrentItem.text = UplinkLine(RoundTripTable[PatternBytes(MAX_PAYLOAD_SIZE, 0)])
    /\ decode # <<>>
    /\ as_slice(decode[1].payload) = PatternBytes(MAX_PAYLOAD_SIZE, 0)

\* C8: in every state of a run the table the run found is still there, the
\* rows it found are the first rows of the table, unchanged and in their
\* order, the table has grown by exactly one row for every iteration that
\* ended Ok, and before the loop it holds the rows the run found and no
\* other.
C8_AppendOnly ==
    /\ db0.exists => db.exists
    /\ Len(db.rows) >= Len(db0.rows)
    /\ SubSeq(db.rows, 1, Len(db0.rows)) = db0.rows
    /\ Len(db.rows) = Len(db0.rows) + CountResults({"Ok"})
    /\ ~LoopEntered => db.rows = db0.rows

\* C8 witness: a run against a table with prior rows has passed the setup,
\* added rows to the table and ended normally.
C8_Witness ==
    /\ db0.exists /\ db0.rows # <<>>
    /\ Len(AddedRows) >= 2
    /\ pc = "exited" /\ exit = "Ok"

\* C9 (as claimed): every decoded message and every persisted row has
\* non-empty app_id, dev_id and hardware_serial.
C9_NonEmptyIdentifiers ==
    /\ \A i \in 1..Len(msg) :
          msg[i].app_id # <<>> /\ msg[i].dev_id # <<>> /\ msg[i].hardware_serial # <<>>
    /\ \A i \in 1..Len(AddedRows) :
          /\ AddedRows[i].app_id # <<>>
          /\ AddedRows[i].dev_id # <<>>
          /\ AddedRows[i].hardware_serial # <<>>

\* C9 (amended): each of the three identifiers of a decoded message, and of
\* the row persisted for it, is the sequence of characters that stands
\* between the quotes of the field's value in the line, whether that
\* sequence is empty or not.
C9_IdentifiersVerbatim ==
    /\ \A i \in 1..Len(msg) :
          \A f \in {"app_id", "dev_id", "hardware_serial"} :
              GivesString(line[1], f, msg[i][f])
    /\ (Settled /\ results[pos] = "Ok") =>
          \A f \in {"app_id", "dev_id", "hardware_serial"} :
              GivesString(CurrentItem.text, f, Last(db.rows)[f])

\* C9 witness: a row with an empty app_id has been persisted.
C9_Witness ==
    /\ Settled /\ results[pos] = "Ok"
    /\ Last(db.rows).app_id = <<>>
    /\ MatchesSchema(CurrentItem.text)
    /\ Field(CurrentItem.text, "app_id").s = <<>>

\* C10 (as claimed): after a successful startup the process ends only by
\* returning Ok, with every stream item yielded once, in order, and every
\* iteration finished.
C10_NormalTermination ==
    /\ (LoopEntered /\ pc = "exited") => (exit = "Ok" /\ pos = Len(stdin))
    /\ LoopEntered => (pos <= Len(stdin) /\ Len(results) \in {pos - 1, pos})

====
